---- MODULE Spec2Model ----
(***************************************************************************)
(* Model of the silver-to-gold enrichment stage of the ride-booking        *)
(* pipeline (data_analysis/preprocess/silver_to_gold.py): the Location     *)
(* Resolver get_loc, the Location Table Builder create_location_table,     *)
(* the Weather Fetcher get_weather_info, the Weather Table Builder         *)
(* create_weather_table, the Enrichment Joiner create_gold_table and the   *)
(* entry point run(); and of extract_temporal_features in its polars       *)
(* (preprocess/bronze_to_silver.py) and pandas (features.py) variants.     *)
(*                                                                         *)
(* Data frames are sequences of records (one record per row, one field per *)
(* column).  Timestamps are minutes since the start of day 0; a date is a  *)
(* day number and a time of day is a minute of the day.                    *)
(***************************************************************************)
EXTENDS Integers, Sequences, FiniteSets, TLC

VARIABLES
    pc,               \* position of the running operation
    error,            \* exception that escaped, or "none"
    env,              \* environment variables that are set and non-empty
    bigquery_upload,  \* run(bigquery_upload=...)
    runs,             \* number of run() invocations started
    silver_df,        \* the ride dataset
    loc_df,           \* the location table
    weather_df,       \* the weather table: [columns, rows]
    gold_rides_df,    \* the gold dataset
    files,            \* local files: path |-> contents, or NoFile
    uploaded,         \* BigQuery tables replaced by store_or_upload
    unique_locations, \* create_location_table: locations not iterated yet
    data,             \* create_location_table: rows built so far
    cur,              \* location string the current loop iteration is about
    row,              \* create_weather_table: location row of this iteration
    lat,              \* create_location_table: get_loc(loc)[0] of this row
    which,            \* which get_loc call of the row runs: "latitude" / "longitude"
    max_retries,      \* get_loc / get_weather_info: max_retries argument
    attempt,          \* get_loc / get_weather_info: loop variable
    ret,              \* value returned by the last get_loc / get_weather_info
    getLocCalls,      \* location |-> get_loc invocations of this table build
    outcomes,         \* outcomes of the service calls of the current invocation
    sleeps,           \* time.sleep calls of the current get_loc / get_weather_info
    rows,             \* create_weather_table: location rows not iterated yet
    weather_dfs,      \* create_weather_table: per-location frames so far
    weatherCalls,     \* location |-> get_weather_info invocations
    skipLogged,       \* locations for which the skip message was printed
    cache,            \* requests_cache: the requests answered and kept in .cache
    polars_df,        \* bronze_to_silver.py: the frame of extract_temporal_features
    pandas_df         \* features.py: the frame of extract_temporal_features

vars == <<pc, error, env, bigquery_upload, runs, silver_df, loc_df, weather_df,
          gold_rides_df, files, uploaded, unique_locations, data, cur, row, lat,
          which, max_retries, attempt, ret, getLocCalls, outcomes, sleeps,
          rows, weather_dfs, weatherCalls, skipLogged, cache, polars_df, pandas_df>>

----------------------------------------------------------------------------
(* Values *)

\* Python None / polars null.  Every nullable value of the model is a tuple
\* that starts with a tag, so that null is comparable with each of them.
NULL == <<"null">>

\* Location strings of the ride dataset (none of them null)
Locations == {"A", "B"}

\* tolerance="1h" of the two join_asof calls, in minutes
Tolerance == 60

\* default max_retries of get_loc
GetLocMaxRetries == 3

\* default max_retries of get_weather_info
WeatherMaxRetries == 3

\* interval="1h" of the hourly series, in minutes
MinutesPerHour == 60

MinutesPerDay == 24 * MinutesPerHour

----------------------------------------------------------------------------
(* Bounds *)

\* rides in a ride dataset
MaxRides == 2

\* largest max_retries argument tried on get_loc
MaxRetriesArg == 6

\* run() invocations in one behaviour
MaxRuns == 2

\* last day of the ride datetimes given to extract_temporal_features
MaxDay == 6

----------------------------------------------------------------------------
(* Generic helpers *)

Abs(x) == IF x < 0 THEN -x ELSE x

Max(S) == CHOOSE x \in S : \A y \in S : y <= x

Min(S) == CHOOSE x \in S : \A y \in S : x <= y

Range(s) == {s[i] : i \in 1..Len(s)}

\* sequences over S of length 0..n
SeqUpTo(S, n) == UNION {[1..k -> S] : k \in 0..n}

RECURSIVE Flatten(_)
Flatten(ss) == IF ss = <<>> THEN <<>> ELSE Head(ss) \o Flatten(Tail(ss))

\* a set as a sequence in some order
RECURSIVE SetToSeq(_)
SetToSeq(S) ==
    IF S = {} THEN <<>>
    ELSE LET x == CHOOSE y \in S : TRUE IN <<x>> \o SetToSeq(S \ {x})

----------------------------------------------------------------------------
(* Column values and their conversions *)

\* a pl.Datetime value: n minutes since the start of day 0
Datetime(n) == <<"Datetime", n>>

dtype(v) == v[1]

value(v) == v[2]

\* the text of a date and a time of day, "<date> <time>"
Str(d, m) == <<"String", d, m>>

\* pl.concat_str([date, time], separator=" ")
concat_str(d, m) == Str(d, m)

\* Expr.cast(pl.String) of a datetime: the date and the time of day as text
cast_String(v) ==
    IF dtype(v) = "String" THEN v
    ELSE Str(value(v) \div MinutesPerDay, value(v) % MinutesPerDay)

\* Expr.str.strptime(pl.Datetime): text of a date and a time to a timestamp
strptime(v) == Datetime(v[2] * MinutesPerDay + v[3])

WeatherVars == {"temperature_2m", "rain", "snowfall", "wind_speed_10m", "wind_speed_100m"}

WeatherColumns == {"date", "location"} \cup WeatherVars

----------------------------------------------------------------------------
(* Data-frame operations of polars used by the stage *)

\* DataFrame.rename on one row: column c becomes column m[c], other columns stay
RenameRow(r, m) ==
    LET old == DOMAIN m
        new == {m[c] : c \in old}
        src(c) == IF c \in new THEN CHOOSE o \in old : m[o] = c ELSE c
    IN  [c \in ((DOMAIN r) \ old) \cup new |-> r[src(c)]]

rename(df, m) == [i \in 1..Len(df) |-> RenameRow(df[i], m)]

\* DataFrame.drop on one row
DropRow(r, cs) == [c \in (DOMAIN r) \ cs |-> r[c]]

\* a drop that removes nothing
drop_nothing(df, cs) == df

\* DataFrame.drop
drop(df, cs) == [i \in 1..Len(df) |-> DropRow(df[i], cs)]

\* a fill of default values instead of nulls
ZeroRow(cs) == [c \in cs |-> <<"zero">>]

\* the null values of the columns a join finds no match for
NullRow(cs) == [c \in cs |-> NULL]

\* rows of the right frame that an inner join drops nothing of: how="inner"
InnerJoinRows(l, right, on, rcols) ==
    LET m == SelectSeq(right, LAMBDA r : r[on] = l[on])
    IN  [i \in 1..Len(m) |-> l @@ DropRow(m[i], {on})]

\* the output rows of one left row under how="left": one per matching right
\* row, or the left row with null right columns when nothing matches
LeftJoinRows(l, right, on, rcols) ==
    LET m == SelectSeq(right, LAMBDA r : r[on] = l[on])
    IN  IF m = <<>> THEN << l @@ NullRow(rcols \ {on}) >>
        ELSE [i \in 1..Len(m) |-> l @@ DropRow(m[i], {on})]

\* DataFrame.join(right, left_on=on, right_on=on, how="left"); rcols are the
\* columns of the right frame
join(left, right, on, rcols) ==
    Flatten([i \in 1..Len(left) |-> LeftJoinRows(left[i], right, on, rcols)])

\* DataFrame.sort(by=col) on a datetime column: stable, ascending.  The rows
\* before, at and after the value of a pivot row keep their order.
RECURSIVE sort(_, _)
sort(df, col) ==
    IF Len(df) <= 1 THEN df
    ELSE LET k == value(df[(Len(df) + 3) \div 4][col])
         IN  sort(SelectSeq(df, LAMBDA x : value(x[col]) < k), col)
                 \o SelectSeq(df, LAMBDA x : value(x[col]) = k)
                 \o sort(SelectSeq(df, LAMBDA x : value(x[col]) > k), col)

\* strategy="nearest" that keeps the earlier row when two rows are equally far
NearestIdxEarlier(val, group, on) ==
    LET le == {i \in 1..Len(group) : value(group[i][on]) <= val}
        gt == {i \in 1..Len(group) : value(group[i][on]) > val}
        best == IF le = {} THEN 0 ELSE Max(le)
        scan == IF gt = {} THEN 0 ELSE Min(gt)
    IN  IF scan = 0 THEN best
        ELSE IF best = 0 \/ value(group[scan][on]) - val < val - value(group[best][on])
             THEN Max({i \in gt : value(group[i][on]) = value(group[scan][on])})
             ELSE best

\* strategy="nearest" of join_asof on a sorted group: the index of the row
\* chosen for the left value val, 0 when the group is empty.  The scan keeps
\* the last row not after val as its best bound, then takes the first later
\* row instead when that one is not farther away (and the last of its equals).
NearestIdx(val, group, on) ==
    LET le == {i \in 1..Len(group) : value(group[i][on]) <= val}
        gt == {i \in 1..Len(group) : value(group[i][on]) > val}
        best == IF le = {} THEN 0 ELSE Max(le)
        scan == IF gt = {} THEN 0 ELSE Min(gt)
    IN  IF scan = 0 THEN best
        ELSE IF best = 0 \/ value(group[scan][on]) - val <= val - value(group[best][on])
             THEN Max({i \in gt : value(group[i][on]) = value(group[scan][on])})
             ELSE best

\* join_asof without the tolerance
AsofRowNoTolerance(l, right, left_on, right_on, by, rcols, tolerance) ==
    LET group == SelectSeq(right, LAMBDA r : r[by] = l[by])
        i == NearestIdx(value(l[left_on]), group, right_on)
    IN  IF i # 0 THEN l @@ DropRow(group[i], {by})
        ELSE l @@ NullRow(rcols \ {by})

\* the output row of one left row of join_asof(by=by, strategy="nearest",
\* tolerance=tolerance): the chosen row of the left row's group when it is
\* within the tolerance, null right columns otherwise
AsofRow(l, right, left_on, right_on, by, rcols, tolerance) ==
    LET group == SelectSeq(right, LAMBDA r : r[by] = l[by])
        i == NearestIdx(value(l[left_on]), group, right_on)
    IN  IF i # 0 /\ Abs(value(group[i][right_on]) - value(l[left_on])) <= tolerance
        THEN l @@ DropRow(group[i], {by})
        ELSE l @@ NullRow(rcols \ {by})

join_asof(left, right, left_on, right_on, by, rcols, tolerance) ==
    [i \in 1..Len(left) |->
        AsofRow(left[i], right, left_on, right_on, by, rcols, tolerance)]

----------------------------------------------------------------------------
(* Enrichment Joiner *)

\* ensure_string_column: cast the column to String unless it is one already
ensure_string_column(df, col) ==
    [i \in 1..Len(df) |->
        IF dtype(df[i][col]) # "String"
        THEN [df[i] EXCEPT ![col] = cast_String(df[i][col])]
        ELSE df[i]]

\* df.with_columns(pl.col(col).str.strptime(pl.Datetime))
with_strptime(df, col) ==
    [i \in 1..Len(df) |-> [df[i] EXCEPT ![col] = strptime(df[i][col])]]

\* gold_df.with_columns(concat_str([date, time]).str.strptime(...).alias("datetime"));
\* a datetime column the ride dataset already has is replaced
with_datetime(df) ==
    [i \in 1..Len(df) |->
        [datetime |-> strptime(concat_str(df[i].date, df[i].time))] @@ df[i]]

PickupLocNames ==
    [location |-> "pickup_location", latitude |-> "pickup_latitude",
     longitude |-> "pickup_longitude"]

DropLocNames ==
    [location |-> "drop_location", latitude |-> "drop_latitude",
     longitude |-> "drop_longitude"]

PickupWeatherNames ==
    [location |-> "pickup_location", date |-> "pickup_weather_date",
     temperature_2m |-> "pickup_temperature_2m", rain |-> "pickup_rain",
     snowfall |-> "pickup_snowfall", wind_speed_10m |-> "pickup_wind_speed_10m",
     wind_speed_100m |-> "pickup_wind_speed_100m"]

DropWeatherNames ==
    [location |-> "drop_location", date |-> "drop_weather_date",
     temperature_2m |-> "drop_temperature_2m", rain |-> "drop_rain",
     snowfall |-> "drop_snowfall", wind_speed_10m |-> "drop_wind_speed_10m",
     wind_speed_100m |-> "drop_wind_speed_100m"]

Renamed(m) == {m[c] : c \in DOMAIN m}

\* weather_df.rename raises when a column it names is missing
GoldRaises(weather) == ~(WeatherColumns \subseteq weather.columns)

\* create_gold_table on a weather table that has the weather columns
create_gold_table(silver, loc, weather) ==
    LET pickup_loc_df == rename(loc, PickupLocNames)
        g1 == join(silver, pickup_loc_df, "pickup_location", Renamed(PickupLocNames))
        drop_loc_df == rename(loc, DropLocNames)
        g2 == join(g1, drop_loc_df, "drop_location", Renamed(DropLocNames))
        g3 == with_datetime(g2)
        pickup_weather ==
            with_strptime(
                ensure_string_column(rename(weather.rows, PickupWeatherNames),
                                     "pickup_weather_date"),
                "pickup_weather_date")
        g4 == join_asof(sort(g3, "datetime"),
                        sort(pickup_weather, "pickup_weather_date"),
                        "datetime", "pickup_weather_date", "pickup_location",
                        Renamed(PickupWeatherNames), Tolerance)
        drop_weather ==
            with_strptime(
                ensure_string_column(rename(weather.rows, DropWeatherNames),
                                     "drop_weather_date"),
                "drop_weather_date")
        g5 == join_asof(sort(g4, "datetime"),
                        sort(drop_weather, "drop_weather_date"),
                        "datetime", "drop_weather_date", "drop_location",
                        Renamed(DropWeatherNames), Tolerance)
    IN  drop(g5, {"pickup_weather_date", "drop_weather_date"})

----------------------------------------------------------------------------
(* The external services, as the stage sees them *)

\* the coordinate the geocoding service answers for a location it finds
Geocode(loc) == [latitude |-> <<"lat", loc>>, longitude |-> <<"lon", loc>>]

\* the value the weather archive holds for a variable at a coordinate and hour
ArchiveValue(var, latitude, longitude, n) == <<var, latitude, longitude, n>>

\* one row of the weather table: the observation of location loc at minute n
Observation(loc, n) ==
    [c \in WeatherColumns |->
        IF c = "location" THEN loc
        ELSE IF c = "date" THEN Datetime(n)
        ELSE ArchiveValue(c, Geocode(loc).latitude, Geocode(loc).longitude, n)]

LocRow(loc, la, lo) == [location |-> loc, latitude |-> la, longitude |-> lo]

Ride(id, p, d, date, time) ==
    [booking_id |-> id, pickup_location |-> p, drop_location |-> d,
     date |-> date, time |-> time, datetime |-> Str(date, time)]

----------------------------------------------------------------------------
(* Inputs of create_gold_table *)

JoinDates == {1}

\* times of day of the rides, in minutes: nearer to the hour before, halfway
\* between two hours, and on an hour
JoinTimes == {10, 30, 120}

\* hours of the day at which a weather table may hold an observation
JoinObsHours == {0, 1}

JoinObs == {Observation(loc, d * MinutesPerDay + h * MinutesPerHour) :
                loc \in Locations, d \in JoinDates, h \in JoinObsHours}

\* ride datasets: up to MaxRides rides, numbered by their position
JoinSilver ==
    {[i \in 1..Len(s) |-> Ride(i, s[i][1], s[i][2], s[i][3], s[i][4])] :
        s \in SeqUpTo(Locations \X Locations \X JoinDates \X JoinTimes, MaxRides)}

\* the rows a location table may hold for one location: none, a resolved one,
\* or two rows for the same location string
JoinLocRows(loc) ==
    { <<>>,
      <<LocRow(loc, Geocode(loc).latitude, Geocode(loc).longitude)>>,
      <<LocRow(loc, Geocode(loc).latitude, Geocode(loc).longitude),
        LocRow(loc, NULL, NULL)>> }

JoinLoc == {Flatten(SetToSeq({f[l] : l \in Locations})) :
                f \in {g \in [Locations -> UNION {JoinLocRows(l) : l \in Locations}] :
                          \A l \in Locations : g[l] \in JoinLocRows(l)}}

\* weather tables held in memory (Datetime dates)
JoinWeather ==
    {[columns |-> WeatherColumns, rows |-> SetToSeq(S)] : S \in SUBSET JoinObs}

----------------------------------------------------------------------------
(* Specification of create_gold_table on its own *)

\* values of the variables an operation does not use
Unused ==
    /\ error = "none"
    /\ env = {}
    /\ bigquery_upload = FALSE
    /\ runs = 0
    /\ files = <<>>
    /\ uploaded = {}
    /\ unique_locations = {}
    /\ data = <<>>
    /\ cur = NULL
    /\ row = NULL
    /\ lat = NULL
    /\ which = NULL
    /\ max_retries = 0
    /\ attempt = 0
    /\ ret = NULL
    /\ getLocCalls = <<>>
    /\ outcomes = <<>>
    /\ sleeps = 0
    /\ rows = <<>>
    /\ weather_dfs = <<>>
    /\ weatherCalls = <<>>
    /\ skipLogged = {}
    /\ cache = {}
    /\ polars_df = <<>>
    /\ pandas_df = <<>>

InitJoin ==
    /\ pc = "input"
    /\ silver_df \in JoinSilver
    /\ loc_df \in JoinLoc
    /\ weather_df \in JoinWeather
    /\ gold_rides_df = NULL
    /\ Unused

\* gold_rides_df = create_gold_table(silver_df, loc_df, weather_df)
CreateGoldTable ==
    /\ pc = "input"
    /\ ~GoldRaises(weather_df)
    /\ gold_rides_df' = create_gold_table(silver_df, loc_df, weather_df)
    /\ pc' = "joined"
    /\ UNCHANGED <<error, env, bigquery_upload, runs, silver_df, loc_df, weather_df,
                   files, uploaded, unique_locations, data, cur, row, lat, which,
                   max_retries, attempt, ret, getLocCalls, outcomes, sleeps,
                   rows, weather_dfs, weatherCalls, skipLogged, cache, polars_df, pandas_df>>

NextJoin == CreateGoldTable

SpecJoin == InitJoin /\ [][NextJoin]_vars

----------------------------------------------------------------------------
(* Properties of create_gold_table, checked under SpecJoin *)

Sides == {"pickup", "drop"}

\* the name of a column of one side of the gold table
SideColumn(side, c) ==
    IF side = "pickup" THEN PickupWeatherNames[c] ELSE DropWeatherNames[c]

\* the ride of the input dataset a gold row was built from
RideOf(g) == CHOOSE r \in Range(silver_df) : r.booking_id = g.booking_id

\* the event timestamp of a ride, in minutes
EventTime(r) == r.date * MinutesPerDay + r.time

\* the timestamp of a weather observation, in minutes
ObsTime(o) == IF dtype(o.date) = "String" THEN value(strptime(o.date)) ELSE value(o.date)

\* the observations of the weather table for the location of one side of a
\* ride that lie within the tolerance of the ride
Candidates(r, side) ==
    {o \in Range(weather_df.rows) :
        /\ o.location = r[SideColumn(side, "location")]
        /\ Abs(ObsTime(o) - EventTime(r)) <= Tolerance}

Nearest(r, C) == {o \in C : \A q \in C : Abs(ObsTime(o) - EventTime(r)) <= Abs(ObsTime(q) - EventTime(r))}

\* the weather fields of one side of a gold row are those of observation o
AttachedFrom(g, side, o) == \A v \in WeatherVars : g[SideColumn(side, v)] = o[v]

NoWeather(g, side) == \A v \in WeatherVars : g[SideColumn(side, v)] = NULL

UniqueLocations(loc) ==
    \A i, j \in 1..Len(loc) : loc[i].location = loc[j].location => i = j

\* C2 as stated: for every ride dataset, location table and weather table the
\* gold table has as many rows as the ride dataset.
C2_NoRowLossAnyLocationTable ==
    pc = "joined" => Len(gold_rides_df) = Len(silver_df)

\* C2 as amended: when no location string occurs in two rows of the location
\* table, the gold table has exactly one row per ride of the ride dataset,
\* whatever enrichment is missing.
C2_NoRowLoss ==
    (pc = "joined" /\ UniqueLocations(loc_df)) =>
        /\ Len(gold_rides_df) = Len(silver_df)
        /\ \A r \in Range(silver_df) :
              Cardinality({j \in 1..Len(gold_rides_df) :
                              gold_rides_df[j].booking_id = r.booking_id}) = 1

\* a full dataset joined against a location table and a weather table that
\* both miss the pickup location of one of its rides
C2_Witness ==
    /\ pc = "joined"
    /\ UniqueLocations(loc_df)
    /\ Len(silver_df) = MaxRides
    /\ \E j \in 1..Len(gold_rides_df) :
          /\ gold_rides_df[j].pickup_latitude = NULL
          /\ NoWeather(gold_rides_df[j], "pickup")
          /\ gold_rides_df[j].drop_latitude # NULL

\* C3: each side of each gold row carries the weather fields of the
\* observation of that side's location that is nearest to the ride's event
\* timestamp among those at most one hour away, and nulls when there is none;
\* so no observation of another location or farther than one hour is attached.
C3_NearestWithinTolerance ==
    pc = "joined" =>
        \A j \in 1..Len(gold_rides_df) : \A side \in Sides :
            LET g == gold_rides_df[j]
                C == Candidates(RideOf(g), side)
            IN  IF C = {} THEN NoWeather(g, side)
                ELSE \E o \in Nearest(RideOf(g), C) : AttachedFrom(g, side, o)

\* one side takes the nearer of two observations within the tolerance, and
\* another side stays null although its location has an observation
C3_Witness ==
    /\ pc = "joined"
    /\ \E j \in 1..Len(gold_rides_df) : \E side \in Sides :
          LET g == gold_rides_df[j]
              C == Candidates(RideOf(g), side)
          IN  /\ Cardinality(C) = 2
              /\ Cardinality(Nearest(RideOf(g), C)) = 1
              /\ ~NoWeather(g, side)
    /\ \E j \in 1..Len(gold_rides_df) : \E side \in Sides :
          LET g == gold_rides_df[j]
          IN  /\ NoWeather(g, side)
              /\ \E o \in Range(weather_df.rows) :
                    o.location = g[SideColumn(side, "location")]

\* two observations of the side's location, one before and one after the
\* ride, equally far from it and within the tolerance
Tie(r, side, early, late) ==
    /\ early \in Candidates(r, side)
    /\ late \in Candidates(r, side)
    /\ ObsTime(early) < EventTime(r)
    /\ EventTime(r) - ObsTime(early) = ObsTime(late) - EventTime(r)

----------------------------------------------------------------------------
(* CSV files *)

EmptyField == <<"">>

\* columns of the model whose values are plain strings and numbers, never null
PlainColumns == {"location", "pickup_location", "drop_location", "booking_id", "time"}

\* DataFrame.write_csv on one value: a null is an empty field, a datetime is
\* written as text
write_csv_value(v) ==
    IF v = NULL THEN EmptyField
    ELSE IF dtype(v) = "Datetime" THEN cast_String(v)
    ELSE v

\* pl.read_csv on one field: an empty field is a null, text stays text
read_csv_value(v) == IF v = EmptyField THEN NULL ELSE v

\* plain names the columns whose values are written as they are
write_csv(df, plain) ==
    [i \in 1..Len(df) |->
        [c \in DOMAIN df[i] |->
            IF c \in plain THEN df[i][c] ELSE write_csv_value(df[i][c])]]

read_csv(contents, plain) ==
    [i \in 1..Len(contents) |->
        [c \in DOMAIN contents[i] |->
            IF c \in plain THEN contents[i][c] ELSE read_csv_value(contents[i][c])]]

Absent == [exists |-> FALSE]

Stored(contents) == [exists |-> TRUE, contents |-> contents]

\* store_or_upload: the files after it
store_or_upload_files(contents, local_path, bigquery_flag) ==
    IF bigquery_flag THEN files
    ELSE [files EXCEPT ![local_path] = Stored(contents)]

\* store_or_upload: the BigQuery tables replaced after it
store_or_upload_tables(table_env_var, bigquery_flag) ==
    IF bigquery_flag THEN uploaded \cup {table_env_var} ELSE uploaded

----------------------------------------------------------------------------
(* Location Resolver *)

NoCoordinate == [latitude |-> NULL, longitude |-> NULL]

\* what a Python function returns when its body ends without a return
ImplicitNone == [none |-> TRUE]

GeocodeOutcomes == {"found", "nomatch", "exception"}

\* get_loc that treats a 'no match' answer like a failed attempt
GetLocStepRetryNoMatch(location_string, att, maxr, outcome) ==
    IF outcome = "found"
    THEN [returns |-> TRUE, ret |-> Geocode(location_string), sleep |-> FALSE]
    ELSE IF att < maxr - 1
         THEN [returns |-> FALSE, ret |-> NoCoordinate, sleep |-> TRUE]
         ELSE [returns |-> TRUE, ret |-> NoCoordinate, sleep |-> FALSE]

\* get_loc that gives up one failed attempt too late
GetLocStepOneMore(location_string, att, maxr, outcome) ==
    IF outcome = "found"
    THEN [returns |-> TRUE, ret |-> Geocode(location_string), sleep |-> FALSE]
    ELSE IF outcome = "nomatch"
    THEN [returns |-> TRUE, ret |-> NoCoordinate, sleep |-> FALSE]
    ELSE IF att < maxr
         THEN [returns |-> FALSE, ret |-> NoCoordinate, sleep |-> TRUE]
         ELSE [returns |-> TRUE, ret |-> NoCoordinate, sleep |-> FALSE]

\* one iteration of the loop of get_loc, for the outcome of its geocode call:
\* whether get_loc returns, what it returns, and whether it sleeps
GetLocStep(location_string, att, maxr, outcome) ==
    IF outcome = "found"
    THEN [returns |-> TRUE, ret |-> Geocode(location_string), sleep |-> FALSE]
    ELSE IF outcome = "nomatch"
    THEN [returns |-> TRUE, ret |-> NoCoordinate, sleep |-> FALSE]
    ELSE IF att < maxr - 1
         THEN [returns |-> FALSE, ret |-> NoCoordinate, sleep |-> TRUE]
         ELSE [returns |-> TRUE, ret |-> NoCoordinate, sleep |-> FALSE]

\* the variables get_loc does not touch
GetLocFrame ==
    UNCHANGED <<error, env, bigquery_upload, runs, silver_df, loc_df, weather_df,
                gold_rides_df, files, uploaded, unique_locations, data, cur, row,
                lat, which, max_retries, getLocCalls, rows, weather_dfs,
                weatherCalls, skipLogged, cache, polars_df, pandas_df>>

\* get_loc: one attempt, loc.geocode(location_string) answering outcome
GeocodeAttempt(outcome) ==
    /\ pc = "get_loc"
    /\ IF attempt >= max_retries
       THEN \* range(max_retries) is used up: the function body ends
            /\ ret' = ImplicitNone
            /\ pc' = "get_loc_returned"
            /\ UNCHANGED <<outcomes, sleeps, attempt>>
       ELSE LET step == GetLocStep(cur, attempt, max_retries, outcome)
            IN  /\ outcomes' = Append(outcomes, outcome)
                /\ sleeps' = IF step.sleep THEN sleeps + 1 ELSE sleeps
                /\ IF step.returns
                   THEN /\ ret' = step.ret
                        /\ pc' = "get_loc_returned"
                        /\ attempt' = attempt
                   ELSE /\ ret' = ret
                        /\ pc' = "get_loc"
                        /\ attempt' = attempt + 1
    /\ GetLocFrame

----------------------------------------------------------------------------
(* Specification of get_loc on its own, for every max_retries argument *)

InitGetLoc ==
    /\ pc = "get_loc"
    /\ cur \in Locations
    /\ max_retries \in 1..MaxRetriesArg
    /\ attempt = 0
    /\ outcomes = <<>>
    /\ sleeps = 0
    /\ ret = NULL
    /\ error = "none"
    /\ env = {}
    /\ bigquery_upload = FALSE
    /\ runs = 0
    /\ silver_df = <<>>
    /\ loc_df = <<>>
    /\ weather_df = <<>>
    /\ gold_rides_df = <<>>
    /\ files = <<>>
    /\ uploaded = {}
    /\ unique_locations = {}
    /\ data = <<>>
    /\ row = NULL
    /\ lat = NULL
    /\ which = NULL
    /\ getLocCalls = <<>>
    /\ rows = <<>>
    /\ weather_dfs = <<>>
    /\ weatherCalls = <<>>
    /\ skipLogged = {}
    /\ cache = {}
    /\ polars_df = <<>>
    /\ pandas_df = <<>>

NextGetLoc == \E outcome \in GeocodeOutcomes : GeocodeAttempt(outcome)

SpecGetLoc == InitGetLoc /\ [][NextGetLoc]_vars

----------------------------------------------------------------------------
(* Properties of get_loc, checked under SpecGetLoc *)

\* C5: get_loc makes at most max_retries geocode calls, lets no exception
\* escape, returns (None, None) when every attempt failed, and returns the
\* coordinate of a successful attempt without a further call.
C5_GetLocFailurePolicy ==
    /\ error = "none"
    /\ Len(outcomes) <= max_retries
    /\ pc = "get_loc" => \A i \in 1..Len(outcomes) : outcomes[i] = "exception"
    /\ pc = "get_loc_returned" =>
          /\ \A i \in 1..(Len(outcomes) - 1) : outcomes[i] = "exception"
          /\ (\A i \in 1..Len(outcomes) : outcomes[i] = "exception") =>
                 /\ Len(outcomes) = max_retries
                 /\ ret = NoCoordinate
          /\ outcomes[Len(outcomes)] = "found" => ret = Geocode(cur)

\* get_loc gave up after max_retries failed attempts, with more than one allowed
C5_Witness ==
    /\ pc = "get_loc_returned"
    /\ max_retries > 1
    /\ Len(outcomes) = max_retries
    /\ \A i \in 1..Len(outcomes) : outcomes[i] = "exception"
    /\ ret = NoCoordinate

\* C6: a 'no match' answer ends get_loc at once: it is the last call, the
\* result is (None, None), and nothing is slept after it (the sleeps are those
\* of the failed attempts before it).
C6_NoMatchIsFinal ==
    \A i \in 1..Len(outcomes) :
        outcomes[i] = "nomatch" =>
            /\ i = Len(outcomes)
            /\ pc = "get_loc_returned"
            /\ ret = NoCoordinate
            /\ sleeps = i - 1

\* 'no match' on the first attempt with attempts left
C6_Witness ==
    /\ pc = "get_loc_returned"
    /\ outcomes = <<"nomatch">>
    /\ max_retries > 1

----------------------------------------------------------------------------
(* Location Table Builder *)

\* set(pickup_locations), without the drop locations
unique_locations_pickup_only(silver) ==
    {silver[i].pickup_location : i \in 1..Len(silver)}

\* set(pickup_locations) | set(drop_locations)
unique_locations_of(silver) ==
    {silver[i].pickup_location : i \in 1..Len(silver)}
        \cup {silver[i].drop_location : i \in 1..Len(silver)}

\* a call get_loc(loc) with the default arguments begins
CallGetLoc(loc, part) ==
    /\ cur' = loc
    /\ which' = part
    /\ max_retries' = GetLocMaxRetries
    /\ attempt' = 0
    /\ outcomes' = <<>>
    /\ sleeps' = 0
    /\ getLocCalls' = [getLocCalls EXCEPT ![loc] = @ + 1]
    /\ pc' = "get_loc"

\* run(): the location table is read from GOLD_LOCATIONS_FILE, which exists
LoadLocationTable ==
    /\ pc = "locations"
    /\ files["GOLD_LOCATIONS_FILE"].exists
    /\ loc_df' = read_csv(files["GOLD_LOCATIONS_FILE"].contents, PlainColumns)
    /\ pc' = "weather"
    /\ UNCHANGED <<error, env, bigquery_upload, runs, silver_df, weather_df,
                   gold_rides_df, files, uploaded, unique_locations, data, cur,
                   row, lat, which, max_retries, attempt, ret, getLocCalls,
                   outcomes, sleeps, rows, weather_dfs, weatherCalls, skipLogged, cache, polars_df, pandas_df>>

\* run(): GOLD_LOCATIONS_FILE does not exist; create_location_table begins
StartLocationTable ==
    /\ pc = "locations"
    /\ ~files["GOLD_LOCATIONS_FILE"].exists
    /\ unique_locations' = unique_locations_of(silver_df)
    /\ data' = <<>>
    /\ getLocCalls' = [l \in Locations |-> 0]
    /\ pc' = "create_location_table"
    /\ UNCHANGED <<error, env, bigquery_upload, runs, silver_df, loc_df, weather_df,
                   gold_rides_df, files, uploaded, cur, row, lat, which,
                   max_retries, attempt, ret, outcomes, sleeps, rows,
                   weather_dfs, weatherCalls, skipLogged, cache, polars_df, pandas_df>>

\* create_location_table: the comprehension takes the next location, in the
\* order the set yields them, and calls get_loc(loc) for its latitude
NextLocation(loc) ==
    /\ pc = "create_location_table"
    /\ loc \in unique_locations
    /\ unique_locations' = unique_locations \ {loc}
    /\ CallGetLoc(loc, "latitude")
    /\ UNCHANGED <<error, env, bigquery_upload, runs, silver_df, loc_df, weather_df,
                   gold_rides_df, files, uploaded, data, row, lat, ret, rows,
                   weather_dfs, weatherCalls, skipLogged, cache, polars_df, pandas_df>>

\* create_location_table that hands its table over as soon as one row is
\* complete, so that run() goes on while locations are left
GetLocReturnEager ==
    /\ pc = "get_loc_returned"
    /\ which \in {"latitude", "longitude"}
    /\ IF which = "latitude"
       THEN /\ lat' = ret.latitude
            /\ CallGetLoc(cur, "longitude")
            /\ UNCHANGED <<data, loc_df, files, uploaded>>
       ELSE LET done == Append(data, LocRow(cur, lat, ret.longitude))
            IN  /\ data' = done
                /\ UNCHANGED <<lat, cur, which, max_retries, attempt, outcomes,
                               sleeps, getLocCalls>>
                /\ loc_df' = done
                /\ files' = store_or_upload_files(
                                write_csv(done, PlainColumns),
                                "GOLD_LOCATIONS_FILE", bigquery_upload)
                /\ uploaded' = store_or_upload_tables(
                                "GCP_BQ_GOLD_LOCATIONS_TABLE", bigquery_upload)
                /\ pc' = "weather"
    /\ UNCHANGED <<error, env, bigquery_upload, runs, silver_df, weather_df,
                   gold_rides_df, unique_locations, row, ret, rows, weather_dfs,
                   weatherCalls, skipLogged, cache, polars_df, pandas_df>>

\* create_location_table: a get_loc call of the row has returned.  After the
\* first, get_loc(loc)[0] is the latitude and get_loc(loc) is called again for
\* [1]; after the second the row is complete.  After the last row the table is
\* built and run() stores or uploads it.
GetLocReturn ==
    /\ pc = "get_loc_returned"
    /\ which \in {"latitude", "longitude"}
    /\ IF which = "latitude"
       THEN /\ lat' = ret.latitude
            /\ CallGetLoc(cur, "longitude")
            /\ UNCHANGED <<data, loc_df, files, uploaded>>
       ELSE LET done == Append(data, LocRow(cur, lat, ret.longitude))
            IN  /\ data' = done
                /\ UNCHANGED <<lat, cur, which, max_retries, attempt, outcomes,
                               sleeps, getLocCalls>>
                /\ IF unique_locations = {}
                   THEN /\ loc_df' = done
                        /\ files' = store_or_upload_files(
                                        write_csv(done, PlainColumns),
                                        "GOLD_LOCATIONS_FILE", bigquery_upload)
                        /\ uploaded' = store_or_upload_tables(
                                        "GCP_BQ_GOLD_LOCATIONS_TABLE", bigquery_upload)
                        /\ pc' = "weather"
                   ELSE /\ pc' = "create_location_table"
                        /\ UNCHANGED <<loc_df, files, uploaded>>
    /\ UNCHANGED <<error, env, bigquery_upload, runs, silver_df, weather_df,
                   gold_rides_df, unique_locations, row, ret, rows, weather_dfs,
                   weatherCalls, skipLogged, cache, polars_df, pandas_df>>

----------------------------------------------------------------------------
(* Weather Fetcher *)

\* Python None as a returned value
NoneValue == [none |-> TRUE]

WeatherOutcomes == {"ok", "exception"}

\* the hourly series of the archive for a coordinate over [start_date,
\* end_date]: one row per hour of every day of the span, as the dict
\* hourly_data holds it
hourly_data(latitude, longitude, start_date, end_date) ==
    [columns |-> WeatherColumns \ {"location"},
     rows |-> [i \in 1..((end_date - start_date + 1) * (MinutesPerDay \div MinutesPerHour)) |->
                 LET n == start_date * MinutesPerDay + (i - 1) * MinutesPerHour
                 IN  [c \in WeatherColumns \ {"location"} |->
                        IF c = "date" THEN Datetime(n)
                        ELSE ArchiveValue(c, latitude, longitude, n)]]]

\* the parameters of a request, by which the cached session keys its answer
\* (the hourly variables are the same in every request)
RequestKey(call) ==
    [latitude |-> call.lat, longitude |-> call.long,
     start_date |-> call.start_date, end_date |-> call.end_date]

\* a cached session that finds nothing it has kept
cache_lookup_expired(c, key) == FALSE

\* CachedSession(".cache", expire_after=-1): a kept answer is found whenever
\* it is asked for again, it never expires
cache_lookup(c, key) == key \in c

\* the cache after a request: an answer of the archive is kept
cache_store(c, key, hit, outcome) ==
    IF ~hit /\ outcome = "ok" THEN c \cup {key} ELSE c

\* get_weather_info that gives up at its first failed attempt
GetWeatherStepNoRetry(latitude, longitude, start_date, end_date, att, maxr, outcome) ==
    IF outcome = "ok"
    THEN [returns |-> TRUE, sleep |-> FALSE,
          ret |-> hourly_data(latitude, longitude, start_date, end_date)]
    ELSE [returns |-> TRUE, sleep |-> FALSE, ret |-> NoneValue]

\* get_weather_info that also sleeps after its last allowed attempt
GetWeatherStepSleepsLast(latitude, longitude, start_date, end_date, att, maxr, outcome) ==
    IF outcome = "ok"
    THEN [returns |-> TRUE, sleep |-> FALSE,
          ret |-> hourly_data(latitude, longitude, start_date, end_date)]
    ELSE IF att < maxr - 1
         THEN [returns |-> FALSE, sleep |-> TRUE, ret |-> NoneValue]
         ELSE [returns |-> TRUE, sleep |-> TRUE, ret |-> NoneValue]

\* one iteration of the loop of get_weather_info, for the outcome of its
\* weather_api call: whether it returns, what it returns, whether it sleeps
GetWeatherStep(latitude, longitude, start_date, end_date, att, maxr, outcome) ==
    IF outcome = "ok"
    THEN [returns |-> TRUE, sleep |-> FALSE,
          ret |-> hourly_data(latitude, longitude, start_date, end_date)]
    ELSE IF att < maxr - 1
         THEN [returns |-> FALSE, sleep |-> TRUE, ret |-> NoneValue]
         ELSE [returns |-> TRUE, sleep |-> FALSE, ret |-> NoneValue]

----------------------------------------------------------------------------
(* Weather Table Builder *)

\* the date of the first ride instead of the earliest date
min_date_first_ride(silver) == silver[1].date

\* silver_df["date"].min() and .max()
min_date(silver) == Min({silver[i].date : i \in 1..Len(silver)})

max_date(silver) == Max({silver[i].date : i \in 1..Len(silver)})

\* DataFrame.drop_nulls on the location table: the rows without any null
drop_nulls(df) ==
    SelectSeq(df, LAMBDA r : r.latitude # NULL /\ r.longitude # NULL)

\* pl.DataFrame(weather_data).with_columns(pl.lit(location).alias("location")).
\* A None makes a frame without columns, on which the literal becomes the only
\* column, with `placeholder` rows (0 or 1, by the version of polars).
location_frame(weather_data, location, placeholder) ==
    IF weather_data = NoneValue
    THEN [columns |-> {"location"},
          rows |-> [i \in 1..placeholder |-> [location |-> location]]]
    ELSE [columns |-> weather_data.columns \cup {"location"},
          rows |-> [i \in 1..Len(weather_data.rows) |->
                      weather_data.rows[i] @@ [location |-> location]]]

\* pl.concat raises on an empty list and on frames of different columns
concat_raises(frames) ==
    IF frames = <<>> THEN "ValueError: cannot concat empty list"
    ELSE IF \E i \in 1..Len(frames) : frames[i].columns # frames[1].columns
    THEN "ShapeError: unable to vstack"
    ELSE "none"

concat(frames) ==
    [columns |-> frames[1].columns,
     rows |-> Flatten([i \in 1..Len(frames) |-> frames[i].rows])]

\* run(): the weather table is read from GOLD_WEATHER_FILE, which exists
LoadWeatherTable ==
    /\ pc = "weather"
    /\ files["GOLD_WEATHER_FILE"].exists
    /\ weather_df' =
          [columns |-> files["GOLD_WEATHER_FILE"].contents.columns,
           rows |-> read_csv(files["GOLD_WEATHER_FILE"].contents.rows, PlainColumns)]
    /\ pc' = "gold"
    /\ UNCHANGED <<error, env, bigquery_upload, runs, silver_df, loc_df,
                   gold_rides_df, files, uploaded, unique_locations, data, cur,
                   row, lat, which, max_retries, attempt, ret, getLocCalls,
                   outcomes, sleeps, rows, weather_dfs, weatherCalls, skipLogged, cache, polars_df, pandas_df>>

\* run(): GOLD_WEATHER_FILE does not exist; create_weather_table begins and
\* iterates loc_df.drop_nulls()
StartWeatherTable ==
    /\ pc = "weather"
    /\ ~files["GOLD_WEATHER_FILE"].exists
    /\ rows' = drop_nulls(loc_df)
    /\ weather_dfs' = <<>>
    /\ weatherCalls' = <<>>
    /\ skipLogged' = {}
    /\ pc' = "create_weather_table"
    /\ UNCHANGED <<error, env, bigquery_upload, runs, silver_df, loc_df, weather_df,
                   gold_rides_df, files, uploaded, unique_locations, data, cur,
                   row, lat, which, max_retries, attempt, ret, getLocCalls,
                   outcomes, sleeps, cache, polars_df, pandas_df>>

\* create_weather_table: the loop takes the next row; a row with a null
\* coordinate is reported and skipped, for any other get_weather_info is called
\* with the date span of the whole ride dataset
NextWeatherRow ==
    /\ pc = "create_weather_table"
    /\ rows # <<>>
    /\ row' = Head(rows)
    /\ rows' = Tail(rows)
    /\ IF Head(rows).latitude = NULL \/ Head(rows).longitude = NULL
       THEN /\ skipLogged' = skipLogged \cup {Head(rows).location}
            /\ pc' = "create_weather_table"
            /\ UNCHANGED <<weatherCalls, max_retries, attempt, outcomes, sleeps>>
       ELSE /\ weatherCalls' =
                  Append(weatherCalls,
                         [location |-> Head(rows).location,
                          lat |-> Head(rows).latitude,
                          long |-> Head(rows).longitude,
                          start_date |-> min_date(silver_df),
                          end_date |-> max_date(silver_df)])
            /\ max_retries' = WeatherMaxRetries
            /\ attempt' = 0
            /\ outcomes' = <<>>
            /\ sleeps' = 0
            /\ pc' = "get_weather_info"
            /\ UNCHANGED skipLogged
    /\ UNCHANGED <<error, env, bigquery_upload, runs, silver_df, loc_df, weather_df,
                   gold_rides_df, files, uploaded, unique_locations, data, cur,
                   lat, which, ret, getLocCalls, weather_dfs, cache, polars_df, pandas_df>>

\* get_weather_info: one attempt.  openmeteo.weather_api sends the request
\* through the cached session: a request kept in the cache is served from it
\* (recorded as "cached"), any other goes to the archive, which answers
\* outcome; a successful answer is kept in the cache.
WeatherAttempt(outcome) ==
    /\ pc = "get_weather_info"
    /\ IF attempt >= max_retries
       THEN \* range(max_retries) is used up: the function body ends
            /\ ret' = NoneValue
            /\ pc' = "get_weather_info_returned"
            /\ UNCHANGED <<outcomes, sleeps, attempt, cache, polars_df, pandas_df>>
       ELSE LET call == weatherCalls[Len(weatherCalls)]
                hit == cache_lookup(cache, RequestKey(call))
                step == GetWeatherStep(call.lat, call.long, call.start_date,
                                       call.end_date, attempt, max_retries,
                                       IF hit THEN "ok" ELSE outcome)
            IN  /\ outcomes' = Append(outcomes, IF hit THEN "cached" ELSE outcome)
                /\ cache' = cache_store(cache, RequestKey(call), hit, outcome)
                /\ sleeps' = IF step.sleep THEN sleeps + 1 ELSE sleeps
                /\ IF step.returns
                   THEN /\ ret' = step.ret
                        /\ pc' = "get_weather_info_returned"
                        /\ attempt' = attempt
                   ELSE /\ ret' = ret
                        /\ pc' = "get_weather_info"
                        /\ attempt' = attempt + 1
    /\ UNCHANGED <<error, env, bigquery_upload, runs, silver_df, loc_df, weather_df,
                   gold_rides_df, files, uploaded, unique_locations, data, cur,
                   row, lat, which, max_retries, getLocCalls, rows, weather_dfs,
                   weatherCalls, skipLogged, polars_df, pandas_df>>

\* create_weather_table: get_weather_info has returned; its result is made a
\* frame, tagged with the location and appended
GetWeatherReturn(placeholder) ==
    /\ pc = "get_weather_info_returned"
    /\ weather_dfs' = Append(weather_dfs, location_frame(ret, row.location, placeholder))
    /\ pc' = "create_weather_table"
    /\ UNCHANGED <<error, env, bigquery_upload, runs, silver_df, loc_df, weather_df,
                   gold_rides_df, files, uploaded, unique_locations, data, cur,
                   row, lat, which, max_retries, attempt, ret, getLocCalls,
                   outcomes, sleeps, rows, weatherCalls, skipLogged, cache, polars_df, pandas_df>>

\* create_weather_table: the loop is over and the frames are concatenated;
\* run() stores or uploads the table unless pl.concat raised
ConcatWeather ==
    /\ pc = "create_weather_table"
    /\ rows = <<>>
    /\ IF concat_raises(weather_dfs) # "none"
       THEN /\ error' = concat_raises(weather_dfs)
            /\ pc' = "failed"
            /\ UNCHANGED <<weather_df, files, uploaded>>
       ELSE /\ weather_df' = concat(weather_dfs)
            /\ files' = store_or_upload_files(
                            [columns |-> concat(weather_dfs).columns,
                             rows |-> write_csv(concat(weather_dfs).rows, PlainColumns)],
                            "GOLD_WEATHER_FILE", bigquery_upload)
            /\ uploaded' = store_or_upload_tables("GCP_BQ_GOLD_WEATHER_TABLE",
                                                  bigquery_upload)
            /\ pc' = "gold"
            /\ UNCHANGED error
    /\ UNCHANGED <<env, bigquery_upload, runs, silver_df, loc_df, gold_rides_df,
                   unique_locations, data, cur, row, lat, which, max_retries,
                   attempt, ret, getLocCalls, outcomes, sleeps, rows, weather_dfs,
                   weatherCalls, skipLogged, cache, polars_df, pandas_df>>

----------------------------------------------------------------------------
(* run() *)

RequiredEnv ==
    <<"SILVER_DATA_FILE", "GOLD_LOCATIONS_FILE", "GOLD_WEATHER_FILE", "GOLD_RIDES_FILE">>

\* a check of SILVER_DATA_FILE alone
FirstUnsetSilverOnly(e) == IF RequiredEnv[1] \in e THEN 0 ELSE 1

\* the first required variable that is unset or empty, 0 when all are set
FirstUnset(e) ==
    IF \A i \in 1..Len(RequiredEnv) : RequiredEnv[i] \in e THEN 0
    ELSE Min({i \in 1..Len(RequiredEnv) : RequiredEnv[i] \notin e})

ConfigError ==
    <<"ValueError: SILVER_DATA_FILE environment variable is not set.",
      "ValueError: GOLD_LOCATIONS_FILE environment variable is not set.",
      "ValueError: GOLD_WEATHER_FILE environment variable is not set.",
      "ValueError: GOLD_RIDES_FILE environment variable is not set.">>

\* run(bigquery_upload=flag) begins: the configuration is checked and the
\* ride dataset is read, from BigQuery or from SILVER_DATA_FILE
Run(flag) ==
    /\ pc \in {"idle", "done", "failed"}
    /\ runs < MaxRuns
    /\ runs' = runs + 1
    /\ bigquery_upload' = flag
    /\ IF FirstUnset(env) # 0
       THEN /\ error' = ConfigError[FirstUnset(env)]
            /\ pc' = "failed"
            /\ silver_df' = <<>>
       ELSE /\ error' = "none"
            /\ pc' = "locations"
            /\ silver_df' = files["SILVER_DATA_FILE"].contents
    /\ loc_df' = <<>>
    /\ weather_df' = <<>>
    /\ gold_rides_df' = <<>>
    /\ unique_locations' = {}
    /\ data' = <<>>
    /\ cur' = NULL
    /\ row' = NULL
    /\ lat' = NULL
    /\ which' = NULL
    /\ max_retries' = 0
    /\ attempt' = 0
    /\ ret' = NULL
    /\ getLocCalls' = [l \in Locations |-> 0]
    /\ outcomes' = <<>>
    /\ sleeps' = 0
    /\ rows' = <<>>
    /\ weather_dfs' = <<>>
    /\ weatherCalls' = <<>>
    /\ skipLogged' = {}
    /\ UNCHANGED <<env, files, uploaded, cache, polars_df, pandas_df>>

\* run(): create_gold_table, then the gold dataset is stored or uploaded
GoldStage ==
    /\ pc = "gold"
    /\ IF GoldRaises(weather_df)
       THEN /\ error' = "ColumnNotFoundError"
            /\ pc' = "failed"
            /\ UNCHANGED <<gold_rides_df, files, uploaded>>
       ELSE LET gold_df == create_gold_table(silver_df, loc_df, weather_df)
            IN  /\ gold_rides_df' = gold_df
                /\ files' = store_or_upload_files(
                                write_csv(gold_df, PlainColumns \cup {"date"}),
                                "GOLD_RIDES_FILE", bigquery_upload)
                /\ uploaded' = store_or_upload_tables("GCP_BQ_GOLD_RIDES_TABLE",
                                                      bigquery_upload)
                /\ pc' = "done"
                /\ UNCHANGED error
    /\ UNCHANGED <<env, bigquery_upload, runs, silver_df, loc_df, weather_df,
                   unique_locations, data, cur, row, lat, which, max_retries,
                   attempt, ret, getLocCalls, outcomes, sleeps, rows,
                   weather_dfs, weatherCalls, skipLogged, cache, polars_df, pandas_df>>

----------------------------------------------------------------------------
(* Specification of the stage *)

PipeDates == {1}

PipeTimes == {30}

\* the ride datasets of the stage: 1 to MaxRides rides, numbered by position
PipeSilver ==
    {[i \in 1..Len(s) |-> Ride(i, s[i][1], s[i][2], s[i][3], s[i][4])] :
        s \in SeqUpTo(Locations \X Locations \X PipeDates \X PipeTimes, MaxRides) \ {<<>>}}

Init ==
    /\ pc = "idle"
    /\ error = "none"
    /\ env \in SUBSET Range(RequiredEnv)
    /\ bigquery_upload = FALSE
    /\ runs = 0
    /\ \E s \in PipeSilver :
          files = [f \in Range(RequiredEnv) |->
                      IF f = "SILVER_DATA_FILE" THEN Stored(s) ELSE Absent]
    /\ uploaded = {}
    /\ silver_df = <<>>
    /\ loc_df = <<>>
    /\ weather_df = <<>>
    /\ gold_rides_df = <<>>
    /\ unique_locations = {}
    /\ data = <<>>
    /\ cur = NULL
    /\ row = NULL
    /\ lat = NULL
    /\ which = NULL
    /\ max_retries = 0
    /\ attempt = 0
    /\ ret = NULL
    /\ getLocCalls = [l \in Locations |-> 0]
    /\ outcomes = <<>>
    /\ sleeps = 0
    /\ rows = <<>>
    /\ weather_dfs = <<>>
    /\ weatherCalls = <<>>
    /\ skipLogged = {}
    /\ cache = {}
    /\ polars_df = <<>>
    /\ pandas_df = <<>>

Next ==
    \/ \E flag \in BOOLEAN : Run(flag)
    \/ LoadLocationTable
    \/ StartLocationTable
    \/ \E loc \in Locations : NextLocation(loc)
    \/ \E outcome \in GeocodeOutcomes : GeocodeAttempt(outcome)
    \/ GetLocReturn
    \/ LoadWeatherTable
    \/ StartWeatherTable
    \/ NextWeatherRow
    \/ \E outcome \in WeatherOutcomes : WeatherAttempt(outcome)
    \/ \E placeholder \in {0, 1} : GetWeatherReturn(placeholder)
    \/ ConcatWeather
    \/ GoldStage

Spec == Init /\ [][Next]_vars

----------------------------------------------------------------------------
(* Properties of the table builders, checked under Spec *)

\* the location strings of the rides read by this run
LocationsOfRides ==
    {l \in Locations : \E i \in 1..Len(silver_df) :
        silver_df[i].pickup_location = l \/ silver_df[i].drop_location = l}

\* create_location_table has returned its table in this run
LocationTableBuilt == data # <<>> /\ loc_df = data

\* pl.concat raised in create_weather_table
WeatherTableRaised ==
    /\ pc = "failed"
    /\ error \in {"ValueError: cannot concat empty list", "ShapeError: unable to vstack"}

\* create_weather_table has ended in this run, with a table or an exception
WeatherTableEnded ==
    /\ pc \in {"gold", "done", "failed"}
    /\ weather_dfs # <<>> \/ WeatherTableRaised

\* the locations whose fetch gave a series, and those whose fetch gave None
Fetched == {weather_dfs[i].rows[1].location : i \in {j \in 1..Len(weather_dfs) :
                                                  "date" \in weather_dfs[j].columns}}

FetchFailed == {weatherCalls[i].location : i \in {j \in 1..Len(weather_dfs) :
                                                  "date" \notin weather_dfs[j].columns}}

\* C1: create_location_table calls get_loc exactly once for every unique
\* location string of the ride dataset, L calls for L locations.
C1_OneResolvePerLocation ==
    LocationTableBuilt =>
        \A l \in Locations :
            getLocCalls[l] = IF l \in LocationsOfRides THEN 1 ELSE 0

\* C7: the table create_location_table returns has exactly one row for every
\* location string that is a pickup or a drop location of a ride, also for
\* the locations that did not resolve, and no other row.
C7_LocationTableComplete ==
    LocationTableBuilt =>
        /\ {loc_df[i].location : i \in 1..Len(loc_df)} = LocationsOfRides
        /\ UniqueLocations(loc_df)

\* two locations, one of them only a drop location and not resolved
C7_Witness ==
    /\ LocationTableBuilt
    /\ Len(loc_df) = 2
    /\ \E i \in 1..Len(loc_df) :
          /\ loc_df[i].latitude = NULL
          /\ loc_df[i].longitude = NULL
          /\ \A j \in 1..Len(silver_df) : silver_df[j].pickup_location # loc_df[i].location

\* C8: when some fetches return None and at least one returns a series,
\* create_weather_table returns a table: the series of the fetched locations
\* and no row of a location whose fetch failed.
C8_PartialWeatherAccepted ==
    (WeatherTableEnded /\ Fetched # {} /\ FetchFailed # {}) =>
        /\ ~WeatherTableRaised
        /\ WeatherColumns \subseteq weather_df.columns
        /\ {weather_df.rows[i].location : i \in 1..Len(weather_df.rows)} = Fetched

\* C9: when no location gives a weather observation, create_weather_table
\* raises; run() then neither reaches the gold join nor stores a gold dataset.
C9_TotalFailureRaises ==
    (WeatherTableEnded /\ Fetched = {}) =>
        /\ WeatherTableRaised
        /\ pc \notin {"gold", "done"}

\* C10: for a row of the location table with a null latitude or longitude
\* create_weather_table calls no fetch and prints that the location is skipped.
C10_NullCoordinateSkipLogged ==
    WeatherTableEnded =>
        \A i \in 1..Len(loc_df) :
            (loc_df[i].latitude = NULL \/ loc_df[i].longitude = NULL) =>
                /\ \A k \in 1..Len(weatherCalls) :
                      weatherCalls[k].location # loc_df[i].location
                /\ loc_df[i].location \in skipLogged

----------------------------------------------------------------------------
(* Specification of create_weather_table on its own *)

WeatherDates == {1, 2}

\* ride datasets whose rides fall on one or two days
WeatherSilver ==
    {[i \in 1..Len(s) |-> Ride(i, s[i][1], s[i][2], s[i][3], s[i][4])] :
        s \in SeqUpTo(Locations \X Locations \X WeatherDates \X PipeTimes, MaxRides) \ {<<>>}}

\* what the two get_loc calls of a row may have given for one location
WeatherLocRows(loc) ==
    {LocRow(loc, la, lo) : la \in {NULL, Geocode(loc).latitude},
                           lo \in {NULL, Geocode(loc).longitude}}

\* the location tables create_location_table may return for a ride dataset
WeatherLoc(silver) ==
    {SetToSeq({f[l] : l \in unique_locations_of(silver)}) :
        f \in {g \in [unique_locations_of(silver) ->
                        UNION {WeatherLocRows(l) : l \in Locations}] :
                  \A l \in unique_locations_of(silver) : g[l] \in WeatherLocRows(l)}}

\* run() has read the ride dataset and has its location table; no weather
\* file exists
InitWeather ==
    /\ pc = "weather"
    /\ error = "none"
    /\ env = Range(RequiredEnv)
    /\ bigquery_upload = FALSE
    /\ runs = 1
    /\ silver_df \in WeatherSilver
    /\ loc_df \in WeatherLoc(silver_df)
    /\ files = [f \in Range(RequiredEnv) |->
                  IF f = "SILVER_DATA_FILE" THEN Stored(silver_df)
                  ELSE IF f = "GOLD_LOCATIONS_FILE"
                       THEN Stored(write_csv(loc_df, PlainColumns))
                       ELSE Absent]
    /\ uploaded = {}
    /\ weather_df = <<>>
    /\ gold_rides_df = <<>>
    /\ unique_locations = {}
    /\ data = loc_df
    /\ cur = NULL
    /\ row = NULL
    /\ lat = NULL
    /\ which = NULL
    /\ max_retries = 0
    /\ attempt = 0
    /\ ret = NULL
    /\ getLocCalls = [l \in Locations |-> 0]
    /\ outcomes = <<>>
    /\ sleeps = 0
    /\ rows = <<>>
    /\ weather_dfs = <<>>
    /\ weatherCalls = <<>>
    /\ skipLogged = {}
    /\ cache = {}
    /\ polars_df = <<>>
    /\ pandas_df = <<>>

NextWeather ==
    \/ StartWeatherTable
    \/ NextWeatherRow
    \/ \E outcome \in WeatherOutcomes : WeatherAttempt(outcome)
    \/ \E placeholder \in {0, 1} : GetWeatherReturn(placeholder)
    \/ ConcatWeather

SpecWeather == InitWeather /\ [][NextWeather]_vars

----------------------------------------------------------------------------
(* Properties of create_weather_table, checked under SpecWeather *)

\* the locations of the location table that have both coordinates
Resolvable == {loc_df[i].location : i \in {j \in 1..Len(loc_df) :
                    loc_df[j].latitude # NULL /\ loc_df[j].longitude # NULL}}

RideDates == {silver_df[i].date : i \in 1..Len(silver_df)}

\* the dates of the rides that have the location as pickup or drop location
DatesOf(l) == {silver_df[i].date : i \in {j \in 1..Len(silver_df) :
                    silver_df[j].pickup_location = l \/ silver_df[j].drop_location = l}}

\* C11: create_weather_table calls get_weather_info exactly once for every
\* location that has a latitude and a longitude, never for another one; every
\* call asks for the span from the earliest to the latest date of all rides and
\* for the coordinate of its location; every row of a frame built from a call
\* carries the location of that call.
C11_OneFetchPerLocationSharedSpan ==
    /\ \A k \in 1..Len(weatherCalls) :
          /\ weatherCalls[k].location \in Resolvable
          /\ \A j \in 1..Len(weatherCalls) :
                weatherCalls[j].location = weatherCalls[k].location => j = k
          /\ weatherCalls[k].start_date \in RideDates
          /\ weatherCalls[k].end_date \in RideDates
          /\ \A d \in RideDates :
                weatherCalls[k].start_date <= d /\ d <= weatherCalls[k].end_date
          /\ weatherCalls[k].lat = Geocode(weatherCalls[k].location).latitude
          /\ weatherCalls[k].long = Geocode(weatherCalls[k].location).longitude
    /\ \A i \in 1..Len(weather_dfs) : \A j \in 1..Len(weather_dfs[i].rows) :
          weather_dfs[i].rows[j].location = weatherCalls[i].location
    /\ (pc \in {"gold", "failed"}) =>
          {weatherCalls[k].location : k \in 1..Len(weatherCalls)} = Resolvable

\* two locations fetched over a span of two days, one of them with rides on
\* the second day only and a series of observations, while a third row of the
\* table or none is left out
C11_Witness ==
    /\ pc \in {"gold", "failed"}
    /\ Len(weatherCalls) = 2
    /\ \E k \in 1..Len(weatherCalls) :
          /\ weatherCalls[k].start_date < weatherCalls[k].end_date
          /\ weatherCalls[k].start_date \notin DatesOf(weatherCalls[k].location)
          /\ Len(weather_dfs[k].rows) > 1

----------------------------------------------------------------------------
(* Specification of the two retry loops on their own, for every max_retries *)

\* the calls of get_weather_info: a resolved location and a span of dates
WeatherCallArgs ==
    {c \in {[location |-> l, lat |-> Geocode(l).latitude,
              long |-> Geocode(l).longitude, start_date |-> d1, end_date |-> d2] :
                l \in Locations, d1 \in WeatherDates, d2 \in WeatherDates} :
        c.start_date <= c.end_date}

\* get_weather_info begins, for some max_retries, with a cache that has kept
\* the answer to its request or has not
InitGetWeather ==
    /\ pc = "get_weather_info"
    /\ \E call \in WeatherCallArgs :
          /\ weatherCalls = <<call>>
          /\ row = LocRow(call.location, call.lat, call.long)
          /\ cache \in {{}, {RequestKey(call)}}
    /\ max_retries \in 1..MaxRetriesArg
    /\ attempt = 0
    /\ outcomes = <<>>
    /\ sleeps = 0
    /\ ret = NULL
    /\ error = "none"
    /\ env = {}
    /\ bigquery_upload = FALSE
    /\ runs = 0
    /\ silver_df = <<>>
    /\ loc_df = <<>>
    /\ weather_df = <<>>
    /\ gold_rides_df = <<>>
    /\ files = <<>>
    /\ uploaded = {}
    /\ unique_locations = {}
    /\ data = <<>>
    /\ cur = NULL
    /\ lat = NULL
    /\ which = NULL
    /\ getLocCalls = <<>>
    /\ rows = <<>>
    /\ weather_dfs = <<>>
    /\ skipLogged = {}
    /\ polars_df = <<>>
    /\ pandas_df = <<>>

InitRetry == InitGetLoc \/ InitGetWeather

NextRetry ==
    \/ \E outcome \in GeocodeOutcomes : GeocodeAttempt(outcome)
    \/ \E outcome \in WeatherOutcomes : WeatherAttempt(outcome)

SpecRetry == InitRetry /\ [][NextRetry]_vars

----------------------------------------------------------------------------
(* Properties of the retry loops, checked under SpecRetry *)

InGetWeather == pc \in {"get_weather_info", "get_weather_info_returned"}

Failed(o) == \A i \in 1..Len(o) : o[i] = "exception"

\* C12: get_weather_info makes at most max_retries attempts and lets no
\* exception escape; it goes on only after failed attempts; its first
\* successful attempt is its last and the hourly series of that attempt is
\* returned; None is returned after max_retries failed attempts and only then.
C12_WeatherRetryLoop ==
    InGetWeather =>
        /\ error = "none"
        /\ Len(outcomes) <= max_retries
        /\ pc = "get_weather_info" => Failed(outcomes)
        /\ pc = "get_weather_info_returned" =>
              /\ Failed(SubSeq(outcomes, 1, Len(outcomes) - 1))
              /\ IF Failed(outcomes)
                 THEN Len(outcomes) = max_retries /\ ret = NoneValue
                 ELSE LET call == weatherCalls[Len(weatherCalls)]
                      IN  ret = hourly_data(call.lat, call.long,
                                            call.start_date, call.end_date)

\* with more than two attempts allowed: a success after failed attempts, with
\* attempts left
C12_Witness ==
    /\ pc = "get_weather_info_returned"
    /\ max_retries > 2
    /\ Len(outcomes) = 2
    /\ outcomes[1] = "exception"
    /\ outcomes[2] = "ok"
    /\ Len(ret.rows) > 0

\* C19: in get_loc and in get_weather_info, while the loop goes on every
\* attempt made has failed and has been followed by one sleep; when the call
\* has returned after k attempts it has slept k - 1 times, so nothing is slept
\* after the attempt that ends the call: a success, a 'no match' answer or the
\* last allowed attempt.
C19_DelayOnlyBetweenAttempts ==
    /\ pc \in {"get_loc", "get_weather_info"} =>
          (attempt < max_retries => sleeps = Len(outcomes) /\ Failed(outcomes))
    /\ pc \in {"get_loc_returned", "get_weather_info_returned"} =>
          sleeps = Len(outcomes) - 1

\* a weather fetch that used up more than one allowed attempt
C19_Witness ==
    /\ pc = "get_weather_info_returned"
    /\ max_retries > 1
    /\ Len(outcomes) = max_retries
    /\ Failed(outcomes)
    /\ sleeps = max_retries - 1

----------------------------------------------------------------------------
(* Properties of the stage as a whole, checked under Spec *)

\* the request of the get_weather_info call that is running
CurrentKey == RequestKey(weatherCalls[Len(weatherCalls)])

\* C13: an answer of the archive is kept in the cache and the cache never
\* loses an answer, within a run and from one run to the next; an attempt whose
\* request has an answer in the cache sends nothing to the archive: it is
\* served that answer and get_weather_info returns its hourly series.
C13_CacheServesRepeats ==
    [][ /\ cache \subseteq cache'
        /\ (pc = "get_weather_info" /\ attempt < max_retries) =>
              /\ CurrentKey \in cache =>
                    /\ outcomes' = Append(outcomes, "cached")
                    /\ cache' = cache
                    /\ pc' = "get_weather_info_returned"
                    /\ ret' = hourly_data(CurrentKey.latitude, CurrentKey.longitude,
                                          CurrentKey.start_date, CurrentKey.end_date)
              /\ outcomes' = Append(outcomes, "ok") => CurrentKey \in cache'
      ]_vars

\* a fetch of the second run is served the answer the first run was given
C13_Witness ==
    /\ runs = 2
    /\ pc = "get_weather_info_returned"
    /\ outcomes = <<"cached">>
    /\ Len(ret.rows) > 0

LocationStage == pc \in {"locations", "create_location_table", "get_loc", "get_loc_returned"}

WeatherStage ==
    pc \in {"weather", "create_weather_table", "get_weather_info",
            "get_weather_info_returned"}

\* the location table of this run has a row for every location of the rides
\* and is the one its file holds, or has been uploaded
LocationTableAvailable ==
    /\ {loc_df[i].location : i \in 1..Len(loc_df)} = LocationsOfRides
    /\ \/ /\ files["GOLD_LOCATIONS_FILE"].exists
          /\ files["GOLD_LOCATIONS_FILE"].contents = write_csv(loc_df, PlainColumns)
       \/ "GCP_BQ_GOLD_LOCATIONS_TABLE" \in uploaded

\* the weather table of this run is the one its file holds, or has been
\* uploaded
WeatherTableAvailable ==
    /\ weather_df # <<>>
    /\ \/ /\ files["GOLD_WEATHER_FILE"].exists
          /\ files["GOLD_WEATHER_FILE"].contents.rows =
                write_csv(weather_df.rows, PlainColumns)
       \/ "GCP_BQ_GOLD_WEATHER_TABLE" \in uploaded

\* C14: within a run, while the location table is being read or built no
\* weather call has been made and no join; while the weather table is being
\* read or built (so at every weather call) the location table is complete and
\* stored and the join has not begun; when the join begins the weather table
\* is complete and stored.
C14_StageOrdering ==
    /\ LocationStage =>
          weatherCalls = <<>> /\ weather_df = <<>> /\ gold_rides_df = <<>>
    /\ WeatherStage => LocationTableAvailable /\ gold_rides_df = <<>>
    /\ pc = "gold" =>
          LocationTableAvailable /\ WeatherTableAvailable /\ gold_rides_df = <<>>

\* the second weather call of a run that built a location table of two rows
C14_Witness ==
    /\ pc = "get_weather_info"
    /\ Len(weatherCalls) = 2
    /\ LocationTableBuilt
    /\ \A l \in LocationsOfRides : getLocCalls[l] > 0

\* the locations of the location table whose geocoding failed, and those that
\* were resolved
FailedLocations == {loc_df[i].location : i \in {j \in 1..Len(loc_df) :
                        loc_df[j].latitude = NULL /\ loc_df[j].longitude = NULL}}

\* one location or more failed to geocode, the others were resolved and
\* their weather was fetched
PartialGeocoding ==
    /\ pc \in {"gold", "done"}
    /\ FailedLocations # {}
    /\ Resolvable # {}
    /\ FailedLocations \cup Resolvable = LocationsOfRides
    /\ WeatherColumns \subseteq weather_df.columns

SideLocation(g, side) == g[SideColumn(side, "location")]

SideLatitude(g, side) == IF side = "pickup" THEN g.pickup_latitude ELSE g.drop_latitude

SideLongitude(g, side) == IF side = "pickup" THEN g.pickup_longitude ELSE g.drop_longitude

\* C15: when some location failed to geocode and the others were resolved,
\* the weather table has observations for each resolved location and for no
\* other; in the gold table each side of a ride at a failed location has null
\* coordinates and null weather, and each side at a resolved location has that
\* location's coordinate and, when an observation lies within the tolerance,
\* the weather of such an observation, none of its fields null.
C15_PartialFailureTolerated ==
    PartialGeocoding =>
        /\ {weather_df.rows[i].location : i \in 1..Len(weather_df.rows)} = Resolvable
        /\ pc = "done" =>
              /\ Len(gold_rides_df) = Len(silver_df)
              /\ \A j \in 1..Len(gold_rides_df) : \A side \in Sides :
                    LET g == gold_rides_df[j]
                        l == SideLocation(g, side)
                        C == Candidates(RideOf(g), side)
                    IN  IF l \in FailedLocations
                        THEN /\ SideLatitude(g, side) = NULL
                             /\ SideLongitude(g, side) = NULL
                             /\ NoWeather(g, side)
                        ELSE /\ SideLatitude(g, side) = Geocode(l).latitude
                             /\ SideLongitude(g, side) = Geocode(l).longitude
                             /\ C # {} =>
                                   /\ \E o \in C : AttachedFrom(g, side, o)
                                   /\ \A v \in WeatherVars : g[SideColumn(side, v)] # NULL

\* a ride from a location that failed to geocode to a resolved location with
\* an observation within the tolerance
C15_Witness ==
    /\ pc = "done"
    /\ PartialGeocoding
    /\ \E j \in 1..Len(gold_rides_df) :
          /\ gold_rides_df[j].pickup_location \in FailedLocations
          /\ gold_rides_df[j].drop_location \in Resolvable
          /\ Candidates(RideOf(gold_rides_df[j]), "drop") # {}
          /\ ~NoWeather(gold_rides_df[j], "drop")

\* C16: when a required variable is unset or empty every run() ends at once
\* with the ValueError that names the first such variable: no ride dataset has
\* been read, no geocoding or weather call made, nothing sent to the archive,
\* no file written and nothing uploaded.
C16_ConfigurationFailFast ==
    (Range(RequiredEnv) \ env # {}) =>
        /\ pc \in {"idle", "failed"}
        /\ runs > 0 =>
              /\ pc = "failed"
              /\ \E i \in 1..Len(RequiredEnv) :
                    /\ RequiredEnv[i] \notin env
                    /\ \A j \in 1..(i - 1) : RequiredEnv[j] \in env
                    /\ error = ConfigError[i]
        /\ silver_df = <<>>
        /\ \A l \in Locations : getLocCalls[l] = 0
        /\ weatherCalls = <<>>
        /\ cache = {}
        /\ uploaded = {}
        /\ \A f \in Range(RequiredEnv) \ {"SILVER_DATA_FILE"} : ~files[f].exists
        /\ loc_df = <<>> /\ weather_df = <<>> /\ gold_rides_df = <<>>

\* a second run with only GOLD_WEATHER_FILE unset
C16_Witness ==
    /\ runs = 2
    /\ pc = "failed"
    /\ Range(RequiredEnv) \ env = {"GOLD_WEATHER_FILE"}
    /\ error = "ValueError: GOLD_WEATHER_FILE environment variable is not set."

----------------------------------------------------------------------------
(* Frame of create_gold_table, checked under SpecJoin *)

CoordinateColumns ==
    {"pickup_latitude", "pickup_longitude", "drop_latitude", "drop_longitude"}

SideWeatherColumns ==
    {"pickup_temperature_2m", "pickup_rain", "pickup_snowfall",
     "pickup_wind_speed_10m", "pickup_wind_speed_100m",
     "drop_temperature_2m", "drop_rain", "drop_snowfall",
     "drop_wind_speed_10m", "drop_wind_speed_100m"}

----------------------------------------------------------------------------
(* Re-runs and the rows of the location table, checked under Spec *)

\* both tables have been stored by store_or_upload: written to their files
\* or uploaded
BothTablesStored ==
    /\ files["GOLD_LOCATIONS_FILE"].exists \/ "GCP_BQ_GOLD_LOCATIONS_TABLE" \in uploaded
    /\ files["GOLD_WEATHER_FILE"].exists \/ "GCP_BQ_GOLD_WEATHER_TABLE" \in uploaded

\* C18: a run() that finds both tables stored by an earlier run, written or
\* uploaded, takes the stored location table and goes on to the weather table
\* without a geocoding call, and takes the stored weather table and goes on
\* to the join without a weather call.
C18_RerunsReuseStoredTables ==
    [][ BothTablesStored =>
          /\ pc = "locations" => (pc' = "weather" /\ getLocCalls' = getLocCalls)
          /\ pc = "weather" => (pc' = "gold" /\ weatherCalls' = weatherCalls)
      ]_vars

\* C20: in every row of the table create_location_table returns latitude and
\* longitude are both null or are the two parts of the one coordinate the
\* geocoding service has for the location.
C20_CoordinateConsistency ==
    LocationTableBuilt =>
        \A i \in 1..Len(loc_df) :
            \/ loc_df[i].latitude = NULL /\ loc_df[i].longitude = NULL
            \/ /\ loc_df[i].latitude = Geocode(loc_df[i].location).latitude
               /\ loc_df[i].longitude = Geocode(loc_df[i].location).longitude

----------------------------------------------------------------------------
(* Temporal features of the two silver variants: extract_temporal_features  *)
(* of preprocess/bronze_to_silver.py (polars) and of features.py (pandas).  *)
(* Day 0 of the timestamps is Monday 1 January 2024 and the days stay       *)
(* within that January.                                                     *)

DayNumber(v) == value(v) \div MinutesPerDay

\* Expr.dt.hour / Series.dt.hour
dt_hour(v) == (value(v) % MinutesPerDay) \div MinutesPerHour

\* Expr.dt.day / Series.dt.day: the day of the month
dt_day(v) == DayNumber(v) + 1

\* Expr.dt.month / Series.dt.month
dt_month(v) == 1

\* polars Expr.dt.weekday: the ISO weekday, Monday = 1 ... Sunday = 7
dt_weekday(v) == (DayNumber(v) % 7) + 1

\* pandas Series.dt.dayofweek: Monday = 0 ... Sunday = 6
dt_dayofweek(v) == DayNumber(v) % 7

\* the pl.when chain on is_between (both ends included)
time_of_day(hour) ==
    IF 6 <= hour /\ hour <= 11 THEN "morning"
    ELSE IF 12 <= hour /\ hour <= 16 THEN "afternoon"
    ELSE IF 17 <= hour /\ hour <= 22 THEN "evening"
    ELSE "night"

\* segment_time_of_day of features.py
segment_time_of_day(hour) ==
    IF 6 <= hour /\ hour <= 11 THEN "morning"
    ELSE IF 12 <= hour /\ hour <= 16 THEN "afternoon"
    ELSE IF 17 <= hour /\ hour <= 22 THEN "evening"
    ELSE "night"

\* bronze_to_silver.py: extract_temporal_features
extract_temporal_features_polars(df) ==
    [i \in 1..Len(df) |->
        [hour |-> dt_hour(df[i].datetime),
         day |-> dt_day(df[i].datetime),
         month |-> dt_month(df[i].datetime),
         weekday |-> dt_weekday(df[i].datetime),
         is_weekend |-> dt_weekday(df[i].datetime) \in {5, 6},
         time_of_day |-> time_of_day(dt_hour(df[i].datetime))] @@ df[i]]

\* features.py: extract_temporal_features
extract_temporal_features_pandas(df) ==
    [i \in 1..Len(df) |->
        [hour |-> dt_hour(df[i].datetime),
         day |-> dt_day(df[i].datetime),
         month |-> dt_month(df[i].datetime),
         weekday |-> dt_dayofweek(df[i].datetime),
         is_weekend |-> dt_dayofweek(df[i].datetime) \in {5, 6},
         time_of_day |-> segment_time_of_day(dt_hour(df[i].datetime))] @@ df[i]]

\* times of day of the ride datetimes, in minutes: in the night and at noon
FeatureTimes == {30, 720}

\* the frames given to both variants: 1 to MaxRides rides with a datetime
FeatureFrames ==
    {[i \in 1..Len(s) |->
        [booking_id |-> i, datetime |-> Datetime(s[i][1] * MinutesPerDay + s[i][2])]] :
        s \in SeqUpTo((0..MaxDay) \X FeatureTimes, MaxRides) \ {<<>>}}

HasFeatures(df) == \A i \in 1..Len(df) : "is_weekend" \in DOMAIN df[i]

InitFeatures ==
    /\ pc = "features"
    /\ polars_df \in FeatureFrames
    /\ pandas_df = polars_df
    /\ error = "none"
    /\ env = {}
    /\ bigquery_upload = FALSE
    /\ runs = 0
    /\ silver_df = <<>>
    /\ loc_df = <<>>
    /\ weather_df = <<>>
    /\ gold_rides_df = <<>>
    /\ files = <<>>
    /\ uploaded = {}
    /\ unique_locations = {}
    /\ data = <<>>
    /\ cur = NULL
    /\ row = NULL
    /\ lat = NULL
    /\ which = NULL
    /\ max_retries = 0
    /\ attempt = 0
    /\ ret = NULL
    /\ getLocCalls = <<>>
    /\ outcomes = <<>>
    /\ sleeps = 0
    /\ rows = <<>>
    /\ weather_dfs = <<>>
    /\ weatherCalls = <<>>
    /\ skipLogged = {}
    /\ cache = {}

\* the variables extract_temporal_features does not touch
FeaturesFrame ==
    UNCHANGED <<pc, error, env, bigquery_upload, runs, silver_df, loc_df, weather_df,
                gold_rides_df, files, uploaded, unique_locations, data, cur, row,
                lat, which, max_retries, attempt, ret, getLocCalls, outcomes,
                sleeps, rows, weather_dfs, weatherCalls, skipLogged, cache>>

\* silver_df = extract_temporal_features(silver_df) of bronze_to_silver.py
ExtractPolars ==
    /\ pc = "features"
    /\ ~HasFeatures(polars_df)
    /\ polars_df' = extract_temporal_features_polars(polars_df)
    /\ UNCHANGED pandas_df
    /\ FeaturesFrame

\* extract_temporal_features(df) of features.py
ExtractPandas ==
    /\ pc = "features"
    /\ ~HasFeatures(pandas_df)
    /\ pandas_df' = extract_temporal_features_pandas(pandas_df)
    /\ UNCHANGED polars_df
    /\ FeaturesFrame

NextFeatures == ExtractPolars \/ ExtractPandas

SpecFeatures == InitFeatures /\ [][NextFeatures]_vars

\* Saturday or Sunday, by the calendar: day 0 is a Monday
IsSaturdayOrSunday(v) == (value(v) \div MinutesPerDay) % 7 \in {5, 6}

\* C21: for every ride datetime the is_weekend value of the polars variant
\* equals that of the pandas variant, and both are true exactly when the
\* datetime falls on a Saturday or a Sunday.
C21_WeekendFlagsAgree ==
    (pc = "features" /\ HasFeatures(polars_df) /\ HasFeatures(pandas_df)) =>
        \A i \in 1..Len(polars_df) :
            /\ polars_df[i].is_weekend = pandas_df[i].is_weekend
            /\ polars_df[i].is_weekend = IsSaturdayOrSunday(polars_df[i].datetime)
            /\ pandas_df[i].is_weekend = IsSaturdayOrSunday(pandas_df[i].datetime)

====
